---- MODULE Spec2Model ----
(***************************************************************************)
(* Model of scripts/package_gui.py: main() locates a build directory,      *)
(* reads the binary name from the crate manifest, writes a zip archive in  *)
(* single or full mode and maps the outcome to an exit code.               *)
(*                                                                         *)
(* Text (file names, manifest lines, archive entry names) is a sequence of *)
(* one-character strings, so that the string operations of the script are  *)
(* computed rather than assumed.                                           *)
(***************************************************************************)
EXTENDS Integers, Sequences, FiniteSets, TLC

VARIABLES cand, buildFiles, assetFiles, manifest, out_loc, outData, outFirst,
          single_only,
          pc, base, bin_name, files_added, z, zipState, exe_found, ret,
          stdout, manifestRead, crashed, unlinkFailed,
          fs0, run, prevRet

\* what no run changes
envVars == <<buildFiles, assetFiles, out_loc, outFirst, single_only>>
\* what opening or deleting the file at the output path can change
diskVars == <<cand, manifest, outData>>
procVars == <<pc, base, bin_name, files_added, z, zipState, exe_found, ret,
              stdout, manifestRead, crashed, unlinkFailed>>
histVars == <<fs0, run, prevRet>>
vars == <<envVars, diskVars, procVars, histVars>>

(***************************************************************************)
(* Bounds of the model.                                                    *)
(***************************************************************************)
MaxFiles == 2
MaxLines == 2
MaxRuns == 2

(***************************************************************************)
(* Text helpers: str.strip, str.strip('"'), str.startswith, `in`,          *)
(* str.split('=', 1)[1], str.lower and pathlib's PurePath.suffix.          *)
(***************************************************************************)
Whitespace == {" ", "\t"}

RECURSIVE LStrip(_, _)
LStrip(s, chars) ==
    IF s # <<>> /\ Head(s) \in chars THEN LStrip(Tail(s), chars) ELSE s

RECURSIVE RStrip(_, _)
RStrip(s, chars) ==
    IF s # <<>> /\ s[Len(s)] \in chars
    THEN RStrip(SubSeq(s, 1, Len(s) - 1), chars)
    ELSE s

Strip(s, chars) == RStrip(LStrip(s, chars), chars)

StartsWith(s, p) == Len(s) >= Len(p) /\ SubSeq(s, 1, Len(p)) = p

Contains(s, c) == \E i \in 1..Len(s) : s[i] = c

\* index of the first occurrence of c in s (0 when absent)
Find(s, c) ==
    IF Contains(s, c) THEN CHOOSE i \in 1..Len(s) : s[i] = c /\ \A j \in 1..(i - 1) : s[j] # c
    ELSE 0

\* index of the last occurrence of c in s (0 when absent)
RFind(s, c) ==
    IF Contains(s, c) THEN CHOOSE i \in 1..Len(s) : s[i] = c /\ \A j \in (i + 1)..Len(s) : s[j] # c
    ELSE 0

\* parts[1] of s.split(c, 1), for s that contains c
AfterFirst(s, c) == SubSeq(s, Find(s, c) + 1, Len(s))

Upper == <<"A","B","C","D","E","F","G","H","I","J","K","L","M",
           "N","O","P","Q","R","S","T","U","V","W","X","Y","Z">>
LowerOf == <<"a","b","c","d","e","f","g","h","i","j","k","l","m",
             "n","o","p","q","r","s","t","u","v","w","x","y","z">>

LowerChar(c) ==
    IF \E i \in 1..26 : Upper[i] = c
    THEN LowerOf[CHOOSE i \in 1..26 : Upper[i] = c]
    ELSE c

Lower(s) == [i \in 1..Len(s) |-> LowerChar(s[i])]

\* PurePath.suffix: the part from the last dot, unless the dot is the first
\* or the last character of the name
Suffix(name) ==
    LET i == RFind(name, ".")
    IN IF 1 < i /\ i < Len(name) THEN SubSeq(name, i, Len(name)) ELSE <<>>


(***************************************************************************)
(* The filesystem.  A directory entry is a record: name (base name), dir   *)
(* (its directory relative to the scanned root, "" or "s/"), kind, x       *)
(* (os.access(p, X_OK)), size (st_size, or -1 when stat() raises) and data *)
(* (an opaque token for its bytes).                                        *)
(***************************************************************************)
MiB5 == 5 * 1024 * 1024

Entry(n, d, k, xp, sz, id) ==
    [name |-> n, dir |-> d, kind |-> k, x |-> xp, size |-> sz, data |-> <<"content", id>>]

fAppExe  == Entry(<<"a","p","p",".","e","x","e">>, <<>>, "file", FALSE, 100, 1)
fApp     == Entry(<<"a","p","p">>, <<>>, "file", TRUE, 100, 2)
fOthExe  == Entry(<<"x",".","e","x","e">>, <<>>, "file", FALSE, 100, 3)
fUpExe   == Entry(<<"Y",".","E","X","E">>, <<>>, "file", FALSE, MiB5 + 1, 4)
fRun     == Entry(<<"r","u","n">>, <<>>, "file", TRUE, MiB5 + 1, 5)
fLib     == Entry(<<"l",".","s","o">>, <<>>, "file", FALSE, MiB5 + 1, 6)
fTxt     == Entry(<<"a",".","t","x","t">>, <<>>, "file", FALSE, MiB5 + 1, 7)
fBigMd   == Entry(<<"r",".","m","d">>, <<>>, "file", FALSE, MiB5 + 1, 8)
fEdgeMd  == Entry(<<"t",".","m","d">>, <<>>, "file", FALSE, MiB5, 9)
fSmallMd == Entry(<<"s",".","m","d">>, <<>>, "file", FALSE, MiB5 - 1, 10)
fUnkMd   == Entry(<<"u",".","m","d">>, <<>>, "file", FALSE, -1, 11)
dSub     == Entry(<<"s">>, <<>>, "dir", TRUE, 0, 12)
dExe     == Entry(<<"d",".","e","x","e">>, <<>>, "dir", TRUE, 0, 13)
fNested  == Entry(<<"n",".","d","l","l">>, <<"s","/">>, "file", FALSE, MiB5 + 1, 14)
fNestExe == Entry(<<"a","p","p",".","e","x","e">>, <<"s","/">>, "file", FALSE, MiB5 + 1, 15)
fImg     == Entry(<<"i",".","s","v","g">>, <<>>, "file", FALSE, MiB5 + 1, 16)

\* out_path: elsewhere, one of the candidate paths (i), a file inside the
\* located build directory, a file inside the assets directory, or the manifest
OutAt(where) == [at |-> where, i |-> 0]
OutAtCand(k) == [at |-> "cand", i |-> k]
OutIsCand == out_loc.at = "cand"

\* base name of the output path when it lies inside a scanned directory
OutName == <<"o",".","z","i","p">>

AbsentFile == [exists |-> FALSE, isZip |-> FALSE, x |-> FALSE, entries |-> <<>>]
OldFile(xp) == [exists |-> TRUE, isZip |-> FALSE, x |-> xp, entries |-> <<>>]

\* the file at the output path as a directory entry; its size and bytes are
\* those of the archive at the moment it is visited (StatSize, DataOf)
SelfEntry == [name |-> OutName, dir |-> <<>>, kind |-> "file", x |-> outData.x,
              size |-> 0, data |-> <<"partial", 0>>]

WithSelf(files) == IF outFirst THEN <<SelfEntry>> \o files ELSE files \o <<SelfEntry>>

\* base.rglob('*'): every entry below the build directory; nothing when base
\* is not a directory
BuildListing ==
    IF cand[base] # "dir" THEN <<>>
    ELSE IF out_loc.at = "inBase" /\ outData.exists THEN WithSelf(buildFiles)
    ELSE buildFiles

\* assets_path.rglob('*')
AssetListing ==
    IF out_loc.at = "inAssets" /\ outData.exists THEN WithSelf(assetFiles.files)
    ELSE assetFiles.files

\* base.iterdir(): the direct entries only
IsDirect(p) == p.dir = <<>>
DirectListing == SelectSeq(BuildListing, IsDirect)

RECURSIVE ZipSize(_)
ZipSize(acc) ==
    IF acc = <<>> THEN 0
    ELSE (IF Head(acc).size > 0 THEN Head(acc).size ELSE 0) + ZipSize(Tail(acc))

IsSelf(p) == p.name = OutName /\ p.dir = <<>>

\* p.stat().st_size at the moment p is visited, acc being the entries written
\* so far: the output file holds what opening it left plus those entries
StatSize(p, acc) == IF IsSelf(p) THEN ZipSize(outData.entries) + ZipSize(acc) ELSE p.size

\* the bytes z.write(p) reads
DataOf(p, acc) ==
    IF IsSelf(p) THEN <<"partial", Len(outData.entries) + Len(acc)>> ELSE p.data


(***************************************************************************)
(* find_first_existing, is_executable, is_library.                         *)
(***************************************************************************)
\* The six candidate paths of main(), by position:
\*   1 {crate}/target/x86_64-unknown-linux-musl/release
\*   2 {crate}/target/release
\*   3 target/x86_64-unknown-linux-musl/release
\*   4 target/release
\*   5 {crate}/target/debug
\*   6 target/debug
candidates == <<1, 2, 3, 4, 5, 6>>

NoBase == 0

\* Path(p).exists(): true of a directory and of a regular file alike
PathExists(p) == cand[p] # "absent"

\* a locator that keeps scanning after a hit, so that the last existing
\* path wins
RECURSIVE find_last_existing(_)
find_last_existing(paths) ==
    IF paths = <<>> THEN NoBase
    ELSE IF PathExists(paths[Len(paths)]) THEN paths[Len(paths)]
    ELSE find_last_existing(SubSeq(paths, 1, Len(paths) - 1))

RECURSIVE find_first_existing(_)
find_first_existing(paths) ==
    IF paths = <<>> THEN NoBase
    ELSE IF PathExists(Head(paths)) THEN Head(paths)
    ELSE find_first_existing(Tail(paths))

ExeSuffix == <<".","e","x","e">>

\* os.access does not raise for an entry the listing returned, so the except
\* branch of line 27 has no case of its own

is_executable(p) ==
    IF Lower(Suffix(p.name)) = ExeSuffix THEN TRUE
    ELSE p.x /\ p.kind = "file"

LibSuffixes == { <<".","d","l","l">>, <<".","s","o">>, <<".","d","y","l","i","b">> }

is_library(p) == Lower(Suffix(p.name)) \in LibSuffixes

(***************************************************************************)
(* The binary name from the crate's Cargo.toml (main, lines 64-78).  The   *)
(* result is <<>> for None and <<v>> for the string v.                     *)
(***************************************************************************)
NameKey == <<"n","a","m","e">>

LineMatches(raw) ==
    LET line == Strip(raw, Whitespace)
    IN StartsWith(line, NameKey) /\ Contains(line, "=")

LineValue(raw) ==
    LET line == Strip(raw, Whitespace)
    IN Strip(Strip(AfterFirst(line, "="), Whitespace), {"\""})

RECURSIVE ScanLines(_)
ScanLines(lines) ==
    IF lines = <<>> THEN <<>>
    ELSE IF LineMatches(Head(lines)) THEN <<LineValue(Head(lines))>>
    ELSE ScanLines(Tail(lines))

\* manifest.state: "absent" (crate_toml.exists() is false), "unreadable"
\* (read_text raises), "text" (lines holds its lines) or "archive" (the file
\* holds the bytes of a zip archive, which give no name line)
ExtractBinName(m) ==
    IF m.state = "text" THEN ScanLines(m.lines) ELSE <<>>

(***************************************************************************)
(* Single mode: the loop over base.iterdir() (main, lines 84-98).          *)
(* found is exe_found: <<>> for None, <<p>> for the entry p.               *)
(***************************************************************************)
ExactMatch(p, bn) ==
    /\ bn # <<>>
    /\ bn[1] # <<>>
    /\ (p.name = bn[1] \o ExeSuffix \/ p.name = bn[1])

RECURSIVE SelectExe(_, _, _)
SelectExe(ps, bn, found) ==
    IF ps = <<>> THEN found
    ELSE LET p == Head(ps)
         IN IF p.kind # "file" THEN SelectExe(Tail(ps), bn, found)
            ELSE IF ExactMatch(p, bn) THEN <<p>>
            ELSE IF Lower(Suffix(p.name)) = ExeSuffix THEN <<p>>
            ELSE IF is_executable(p) /\ found = <<>> THEN SelectExe(Tail(ps), bn, <<p>>)
            ELSE SelectExe(Tail(ps), bn, found)

\* z.write(p, arcname): the archive entry
ZipEntry(arc, p, acc) == [name |-> arc, size |-> StatSize(p, acc), data |-> DataOf(p, acc)]

(***************************************************************************)
(* Full mode: the assets loop (lines 107-112) and the build-artifact loop  *)
(* (lines 115-133), each folding the listing into the archive acc.         *)
(***************************************************************************)
AssetsPrefix == <<"a","s","s","e","t","s","/">>

RECURSIVE AddAssets(_, _)
AddAssets(ps, acc) ==
    IF ps = <<>> THEN acc
    ELSE LET p == Head(ps)
         IN IF p.kind = "file"
            THEN AddAssets(Tail(ps), Append(acc, ZipEntry(AssetsPrefix \o p.dir \o p.name, p, acc)))
            ELSE AddAssets(Tail(ps), acc)

AllowSuffixes == { <<".","j","s","o","n">>, <<".","s","v","g">>, <<".","p","a","k">>,
                   <<".","d","a","t">>, <<".","t","x","t">>, <<".","i","n","i">> }

\* the threshold itself taken as small
SizeLimitInclusive(sz) == sz <= MiB5

\* line 126: st_size < 5 * 1024 * 1024
SizeLimit(sz) == sz < MiB5

\* the include decision of lines 119-129
Include(p, acc) ==
    IF is_executable(p) \/ is_library(p) THEN TRUE
    ELSE IF Lower(Suffix(p.name)) \in AllowSuffixes THEN TRUE
    ELSE IF StatSize(p, acc) = -1 THEN TRUE
    ELSE SizeLimit(StatSize(p, acc))

RECURSIVE AddArtifacts(_, _)
AddArtifacts(ps, acc) ==
    IF ps = <<>> THEN acc
    ELSE LET p == Head(ps)
         IN IF p.kind # "file" THEN AddArtifacts(Tail(ps), acc)
            ELSE IF Include(p, acc)
            THEN AddArtifacts(Tail(ps), Append(acc, ZipEntry(p.dir \o p.name, p, acc)))
            ELSE AddArtifacts(Tail(ps), acc)


(***************************************************************************)
(* main(): one action per step of the function.                            *)
(***************************************************************************)
NotReturned == -1

\* the archive opened for appending ('a') instead of writing ('w')
OpenedForAppend == [exists |-> TRUE, isZip |-> TRUE, x |-> outData.x,
                    entries |-> outData.entries]

\* what ZipFile(out_path, 'w') leaves at the output path: a new or truncated
\* file, which keeps the permission bits of the file it replaces
Truncated == [exists |-> TRUE, isZip |-> TRUE, x |-> outData.x, entries |-> <<>>]

\* the archive opened before the build directory is looked for
LocateAfterOpen ==
    /\ pc = "Locating"
    /\ base' = find_first_existing(candidates)
    /\ IF base' = NoBase
       THEN /\ ret' = 2
            /\ pc' = "Done"
            /\ outData' = Truncated
       ELSE /\ ret' = ret
            /\ pc' = "ExtractingName"
            /\ outData' = outData
    /\ UNCHANGED <<envVars, cand, manifest, histVars, bin_name, files_added, z, zipState,
                   exe_found, stdout, manifestRead, crashed, unlinkFailed>>

\* line 53-56: locate the build directory, or report and return 2
Locate ==
    /\ pc = "Locating"
    /\ base' = find_first_existing(candidates)
    /\ IF base' = NoBase
       THEN /\ ret' = 2
            /\ pc' = "Done"
       ELSE /\ ret' = ret
            /\ pc' = "ExtractingName"
    /\ UNCHANGED <<envVars, diskVars, histVars, bin_name, files_added, z, zipState,
                   exe_found, stdout, manifestRead, crashed, unlinkFailed>>

\* lines 64-78: the binary name from the manifest
ExtractName ==
    /\ pc = "ExtractingName"
    /\ bin_name' = ExtractBinName(manifest)
    /\ manifestRead' = TRUE
    /\ pc' = "BuildingArchive"
    /\ UNCHANGED <<envVars, diskVars, histVars, base, files_added, z, zipState,
                   exe_found, ret, stdout, crashed, unlinkFailed>>

\* line 80-81: files_added = 0 and ZipFile(out_path, 'w'); opening a path
\* that is a directory raises, and nothing catches it
OpenArchive ==
    /\ pc = "BuildingArchive"
    /\ zipState = "none"
    /\ files_added' = 0
    /\ IF OutIsCand /\ cand[out_loc.i] = "dir"
       THEN /\ crashed' = TRUE
            /\ ret' = 1
            /\ pc' = "Done"
            /\ UNCHANGED <<diskVars, zipState>>
       ELSE /\ outData' = Truncated
            /\ cand' = IF OutIsCand THEN [cand EXCEPT ![out_loc.i] = "file"] ELSE cand
            /\ manifest' = IF out_loc.at = "manifest"
                           THEN [state |-> "archive", lines |-> <<>>]
                           ELSE manifest
            /\ zipState' = "open"
            /\ UNCHANGED <<crashed, ret, pc>>
    /\ UNCHANGED <<envVars, histVars, base, bin_name, z, exe_found, stdout, manifestRead,
                   unlinkFailed>>

\* single mode that does not skip the assets loop
BuildSingleWithAssets ==
    /\ pc = "BuildingArchive"
    /\ zipState = "open"
    /\ single_only
    /\ IF cand[base] # "dir"
       THEN /\ crashed' = TRUE
            /\ ret' = 1
            /\ pc' = "Done"
            /\ zipState' = "closed"
            /\ UNCHANGED <<exe_found, z, files_added>>
       ELSE /\ exe_found' = SelectExe(DirectListing, bin_name, <<>>)
            /\ LET withAssets == IF assetFiles.exists THEN AddAssets(AssetListing, z) ELSE z
               IN IF exe_found' = <<>>
                  THEN /\ z' = withAssets
                       /\ files_added' = files_added
                  ELSE /\ z' = Append(withAssets, ZipEntry(exe_found'[1].name, exe_found'[1], z))
                       /\ files_added' = files_added + 1
            /\ zipState' = "written"
            /\ UNCHANGED <<crashed, ret, pc>>
    /\ UNCHANGED <<envVars, diskVars, histVars, base, bin_name, stdout, manifestRead,
                   unlinkFailed>>

\* lines 82-104: single mode.  base.iterdir() raises when base is a regular
\* file; the with statement then closes the archive and the error escapes
BuildSingle ==
    /\ pc = "BuildingArchive"
    /\ zipState = "open"
    /\ single_only
    /\ IF cand[base] # "dir"
       THEN /\ crashed' = TRUE
            /\ ret' = 1
            /\ pc' = "Done"
            /\ zipState' = "closed"
            /\ UNCHANGED <<exe_found, z, files_added>>
       ELSE /\ exe_found' = SelectExe(DirectListing, bin_name, <<>>)
            /\ IF exe_found' = <<>>
               THEN UNCHANGED <<z, files_added>>
               ELSE /\ z' = Append(z, ZipEntry(exe_found'[1].name, exe_found'[1], z))
                    /\ files_added' = files_added + 1
            /\ zipState' = "written"
            /\ UNCHANGED <<crashed, ret, pc>>
    /\ UNCHANGED <<envVars, diskVars, histVars, base, bin_name, stdout, manifestRead,
                   unlinkFailed>>

\* assets_path.exists()
AssetsExist == assetFiles.exists

\* lines 105-133: full mode
BuildFull ==
    /\ pc = "BuildingArchive"
    /\ zipState = "open"
    /\ ~single_only
    /\ LET withAssets == IF AssetsExist THEN AddAssets(AssetListing, z) ELSE z
       IN z' = AddArtifacts(BuildListing, withAssets)
    /\ files_added' = files_added + Len(z')
    /\ zipState' = "written"
    /\ UNCHANGED <<envVars, diskVars, histVars, base, bin_name, exe_found, ret, stdout,
                   manifestRead, crashed, unlinkFailed, pc>>

\* the end of the with block: the archive is closed, its entries are on disk
CloseArchive ==
    /\ pc = "BuildingArchive"
    /\ zipState = "written"
    /\ zipState' = "closed"
    /\ outData' = [outData EXCEPT !.entries = @ \o z]
    /\ UNCHANGED <<envVars, cand, manifest, histVars, base, bin_name, files_added, z,
                   exe_found, ret, stdout, manifestRead, crashed, unlinkFailed, pc>>

\* the return statements moved inside the with block
WithBlockNotLeft == zipState \in {"written", "closed"}

\* lines 135-144 are outside the with block: they run once it has been left
WithBlockLeft == zipState = "closed"

\* an off-by-one in the emptiness test
AtMostOneAdded(n) == n <= 1

\* line 135: if files_added == 0
NothingAdded(n) == n = 0

\* the empty archive is left in place
NotUnlinked == UNCHANGED diskVars

\* out_path.unlink() succeeded
Unlinked ==
    /\ outData' = AbsentFile
    /\ cand' = IF OutIsCand THEN [cand EXCEPT ![out_loc.i] = "absent"] ELSE cand
    /\ manifest' = IF out_loc.at = "manifest"
                   THEN [state |-> "absent", lines |-> <<>>]
                   ELSE manifest

\* lines 135-144: delete an empty archive and return 3, or print the path
\* and return 0.  unlink() may raise (the except clause of line 138 swallows
\* it), in which case the file stays
Finish ==
    /\ pc = "BuildingArchive"
    /\ WithBlockLeft
    /\ IF NothingAdded(files_added)
       THEN /\ \E unlinkOk \in BOOLEAN :
                 /\ IF unlinkOk THEN Unlinked ELSE UNCHANGED diskVars
                 /\ unlinkFailed' = ~unlinkOk
            /\ ret' = 3
            /\ stdout' = stdout
       ELSE /\ stdout' = TRUE
            /\ ret' = 0
            /\ UNCHANGED <<diskVars, unlinkFailed>>
    /\ pc' = "Done"
    /\ UNCHANGED <<envVars, histVars, base, bin_name, files_added, z, zipState,
                   exe_found, manifestRead, crashed>>

\* the script is run again on the filesystem the previous run left
Rerun ==
    /\ pc = "Done"
    /\ run < MaxRuns
    /\ run' = run + 1
    /\ prevRet' = ret
    /\ fs0' = <<cand, manifest, outData>>
    /\ pc' = "Locating"
    /\ base' = NoBase
    /\ bin_name' = <<>>
    /\ files_added' = 0
    /\ z' = <<>>
    /\ zipState' = "none"
    /\ exe_found' = <<>>
    /\ ret' = NotReturned
    /\ stdout' = FALSE
    /\ manifestRead' = FALSE
    /\ crashed' = FALSE
    /\ unlinkFailed' = FALSE
    /\ UNCHANGED <<envVars, diskVars>>

Next == Locate \/ ExtractName \/ OpenArchive \/ BuildSingle \/ BuildFull
        \/ CloseArchive \/ Finish

NextTwice == Next \/ Rerun


(***************************************************************************)
(* Initial states: a filesystem and an option set, before main() starts.   *)
(***************************************************************************)
\* the sequences of at most n distinct elements of U
RECURSIVE SeqsUpTo(_, _)
SeqsUpTo(U, n) ==
    IF n = 0 THEN { <<>> }
    ELSE LET shorter == SeqsUpTo(U, n - 1)
         IN shorter \cup { Append(q, e) : q \in { r \in shorter : Len(r) = n - 1 },
                                           e \in U }

Distinct(q) == \A i, j \in 1..Len(q) : i # j => q[i] # q[j]

\* a listing is a real one: no entry twice, and a nested file comes with
\* its directory
Listings(U, n) ==
    { q \in SeqsUpTo(U, n) :
        /\ Distinct(q)
        /\ (\E i \in 1..Len(q) : q[i].dir # <<>>) => (\E i \in 1..Len(q) : q[i] = dSub) }

Text(ls) == [state |-> "text", lines |-> ls]
NoManifest == [state |-> "absent", lines |-> <<>>]
BadManifest == [state |-> "unreadable", lines |-> <<>>]

NoAssets == [exists |-> FALSE, files |-> <<>>]
Assets(fs) == [exists |-> TRUE, files |-> fs]

\* the file at the output path before the run, as the rest of the
\* filesystem determines it
ConsistentOut(c, m, a, o, d) ==
    /\ o.at = "cand" => (d.exists <=> c[o.i] = "file")
    /\ o.at = "manifest" => (d.exists <=> m.state # "absent")
    /\ o.at = "inAssets" => a.exists
    /\ o.at = "inBase" => (\E i \in 1..6 : c[i] = "dir")

InitWith(Cands, Files, AssetSet, Manifests, Outs, Olds) ==
    /\ cand \in Cands
    /\ buildFiles \in Files
    /\ assetFiles \in AssetSet
    /\ manifest \in Manifests
    /\ out_loc \in Outs
    /\ outData \in Olds
    /\ ConsistentOut(cand, manifest, assetFiles, out_loc, outData)
    /\ outFirst \in (IF out_loc.at \in {"inBase", "inAssets"} THEN BOOLEAN ELSE {FALSE})
    /\ single_only \in BOOLEAN
    /\ pc = "Locating"
    /\ base = NoBase
    /\ bin_name = <<>>
    /\ files_added = 0
    /\ z = <<>>
    /\ zipState = "none"
    /\ exe_found = <<>>
    /\ ret = NotReturned
    /\ stdout = FALSE
    /\ manifestRead = FALSE
    /\ crashed = FALSE
    /\ unlinkFailed = FALSE
    /\ fs0 = <<cand, manifest, outData>>
    /\ run = 1
    /\ prevRet = NotReturned

AllDirs == [1..6 -> {"absent", "dir"}]
NoDirs == [i \in 1..6 |-> "absent"]
OnlyDir(k) == [i \in 1..6 |-> IF i = k THEN "dir" ELSE "absent"]
OnlyFile(k) == [i \in 1..6 |-> IF i = k THEN "file" ELSE "absent"]

lName == <<"n","a","m","e"," ","="," ","\"","a","p","p","\"">>
lPackage == <<"[","p","a","c","k","a","g","e","]">>
AppManifest == Text(<<lPackage, lName>>)

\* every combination of candidate directories, a few files
Init ==
    InitWith(AllDirs \cup {OnlyFile(4)},
             Listings({fApp, fBigMd, fSmallMd}, MaxFiles),
             {NoAssets, Assets(<<fImg>>)},
             {NoManifest, AppManifest},
             {OutAt("elsewhere"), OutAt("inBase"), OutAtCand(2)},
             {AbsentFile, OldFile(FALSE)})

Spec == Init /\ [][Next]_vars


(***************************************************************************)
(* Properties of one run (specification Spec).                             *)
(***************************************************************************)
\* the candidate paths, the manifest and the output file as the run found them
cand0 == fs0[1]
out0 == fs0[3]

Returned == pc = "Done" /\ ~crashed

\* C1: a run that ends without an uncaught error returns 0, 2 or 3; 2 exactly
\* when no candidate path existed, 3 exactly when one existed and the archive
\* got no entry, 0 exactly when the archive got an entry; and the output
\* path is printed in the 0 case only.
C1_ExitCodes ==
    /\ Returned =>
         /\ ret \in {0, 2, 3}
         /\ ret = 2 <=> (\A i \in 1..6 : cand0[i] = "absent")
         /\ ret = 3 <=> ((\E i \in 1..6 : cand0[i] # "absent") /\ Len(z) = 0)
         /\ ret = 0 <=> Len(z) > 0
    /\ stdout <=> (pc = "Done" /\ ret = 0)

C1_Witness == Returned /\ ret = 3 /\ Len(z) = 0 /\ ~stdout /\ base # NoBase

\* C3 as stated: after a run that returns 3 no file exists at the output
\* path, and after a run that returns 0 an archive with at least one entry
\* exists there.
C3_Original ==
    Returned =>
      /\ ret = 3 => ~outData.exists
      /\ ret = 0 => (outData.exists /\ outData.isZip /\ Len(outData.entries) >= 1)

\* C3 amended: after a run that returns 3 no file exists at the output path
\* if the deletion succeeded; if it failed, what remains there is the empty
\* archive of this run, never the earlier content; after a run that returns
\* 0 an archive with at least one entry exists there.
C3_Amended ==
    Returned =>
      /\ (ret = 3 /\ ~unlinkFailed) => ~outData.exists
      /\ (ret = 3 /\ unlinkFailed) =>
            (outData.exists /\ outData.isZip /\ outData.entries = <<>>)
      /\ ret = 0 => (outData.exists /\ outData.isZip /\ Len(outData.entries) >= 1)

C3_Witness == Returned /\ ret = 3 /\ ~unlinkFailed /\ out0.exists /\ ~outData.exists

\* the smallest index of paths whose path exists, 0 when there is none
FirstExisting(paths, exists(_)) ==
    IF \E i \in 1..Len(paths) : exists(paths[i])
    THEN paths[CHOOSE i \in 1..Len(paths) :
                 exists(paths[i]) /\ \A j \in 1..(i - 1) : ~exists(paths[j])]
    ELSE NoBase

SampleLists == { candidates, <<6, 5, 4, 3, 2, 1>>, <<4, 2>>, <<5, 5, 1>>, <<3>>, <<>> }

Existed(p) == cand0[p] # "absent"

\* C6: find_first_existing returns the path at the smallest index that
\* exists, and the not-found value exactly when none exists; for main()'s
\* list the located directory is the first of the six in their order.
C6_FirstExisting ==
    /\ \A paths \in SampleLists :
         /\ find_first_existing(paths) = FirstExisting(paths, PathExists)
         /\ find_first_existing(paths) = NoBase <=>
               (\A i \in 1..Len(paths) : ~PathExists(paths[i]))
    /\ pc # "Locating" =>
         /\ base = NoBase <=> (\A i \in 1..6 : ~Existed(i))
         /\ base # NoBase => (Existed(base) /\ \A j \in 1..(base - 1) : ~Existed(j))

C6_Witness ==
    /\ pc = "ExtractingName"
    /\ base = 4
    /\ cand0[5] = "dir"
    /\ cand0[6] = "dir"

Rank(p) ==
    CASE p = "Locating" -> 1
      [] p = "ExtractingName" -> 2
      [] p = "BuildingArchive" -> 3
      [] p = "Done" -> 4

\* C8: the phases follow one another in the order Locating, Extracting-Name,
\* Building-Archive, Done and none is entered twice; 2 is returned only from
\* Locating, before the manifest is read and the archive opened; 3 is
\* returned only once the archive has been built; and when 0 or 3 is
\* returned the archive has been closed.
C8_Phases ==
    [][ /\ pc' # pc => (Rank(pc') = Rank(pc) + 1 \/ (pc' = "Done" /\ Rank(pc) < 4))
        /\ (ret' = 2 /\ ret # 2) =>
              (pc = "Locating" /\ ~manifestRead' /\ zipState' = "none")
        /\ (ret' = 3 /\ ret # 3) =>
              (pc = "BuildingArchive" /\ zipState \in {"written", "closed"})
        /\ (ret' \in {0, 3} /\ ret # ret') => zipState' = "closed"
      ]_vars

C8_Witness == pc = "Done" /\ ret = 0 /\ zipState = "closed" /\ manifestRead

\* C10: a run that returns 2 leaves the candidate paths, the manifest and
\* the file at the output path as it found them.
C10_NoBuildDirNoChange ==
    (pc = "Done" /\ ret = 2) => <<cand, manifest, outData>> = fs0

C10_Witness == pc = "Done" /\ ret = 2 /\ out0.exists /\ outData = out0


(***************************************************************************)
(* File selection (specification SpecFiles): one build directory, every    *)
(* kind of entry.                                                          *)
(***************************************************************************)
AllEntries == { fAppExe, fApp, fOthExe, fUpExe, fRun, fLib, fTxt, fBigMd, fEdgeMd,
                fSmallMd, fUnkMd, dSub, dExe, fNested, fNestExe }

InitFiles ==
    InitWith({NoDirs, OnlyDir(1), OnlyFile(4)},
             Listings(AllEntries, MaxFiles),
             {NoAssets, Assets(<<fImg>>)},
             {NoManifest, AppManifest},
             {OutAt("elsewhere")},
             {AbsentFile})

SpecFiles == InitFiles /\ [][Next]_vars

Built == zipState \in {"written", "closed"} /\ ~crashed

\* the direct regular files of the build directory, in iteration order
IsRegular(p) == p.kind = "file" /\ p.dir = <<>>
DirectFiles == SelectSeq(buildFiles, IsRegular)

NameGiven == bin_name # <<>> /\ bin_name[1] # <<>>

IsExact(p) == NameGiven /\ (p.name = bin_name[1] \o <<".","e","x","e">> \/ p.name = bin_name[1])
EndsInExe(p) == Lower(Suffix(p.name)) = <<".","e","x","e">>

FirstOf(ps, Test(_)) ==
    ps[CHOOSE i \in 1..Len(ps) : Test(ps[i]) /\ \A j \in 1..(i - 1) : ~Test(ps[j])]

Some(ps, Test(_)) == \E i \in 1..Len(ps) : Test(ps[i])

\* C2 as stated: in single mode the selected executable is an entry named
\* exactly <binary_name>.exe or <binary_name> if there is one, whatever its
\* place in the listing; otherwise the first entry ending in .exe; otherwise
\* the first file passing the executable check; otherwise nothing.
C2_Claimed ==
    (single_only /\ Built) =>
        IF Some(DirectFiles, IsExact)
        THEN exe_found # <<>> /\ IsExact(exe_found[1])
        ELSE IF Some(DirectFiles, EndsInExe)
        THEN exe_found = <<FirstOf(DirectFiles, EndsInExe)>>
        ELSE IF Some(DirectFiles, is_executable)
        THEN exe_found = <<FirstOf(DirectFiles, is_executable)>>
        ELSE exe_found = <<>>

ClaimedLibs == { <<".","d","l","l">>, <<".","s","o">>, <<".","d","y","l","i","b">> }
ClaimedData == { <<".","j","s","o","n">>, <<".","s","v","g">>, <<".","p","a","k">>,
                 <<".","d","a","t">>, <<".","t","x","t">>, <<".","i","n","i">> }

ClaimedInclude(p) ==
    LET suf == Lower(Suffix(p.name))
    IN \/ suf = <<".","e","x","e">>
       \/ p.x
       \/ suf \in ClaimedLibs
       \/ suf \in ClaimedData
       \/ p.size = -1
       \/ (p.size >= 0 /\ p.size < 5242880)

Written(p) == \E i \in 1..Len(z) : z[i].name = p.dir \o p.name /\ z[i].data = p.data

\* C4: in full mode a regular file under the build directory is written to
\* the archive exactly when it is an executable (suffix .exe, or the
\* permission check), or its suffix is .dll, .so or .dylib, or its suffix is
\* one of .json .svg .pak .dat .txt .ini, or its size is below 5242880, or
\* its size is unknown (suffixes compared without regard to case); a file of
\* 5242880 bytes or more that matches nothing else is not written.
C4_FullModeFilter ==
    (~single_only /\ Built /\ cand[base] = "dir") =>
        \A i \in 1..Len(buildFiles) :
            buildFiles[i].kind = "file" =>
                (Written(buildFiles[i]) <=> ClaimedInclude(buildFiles[i]))

C4_Witness ==
    /\ ~single_only
    /\ Built
    /\ buildFiles = <<fEdgeMd, fSmallMd>>
    /\ ~Written(fEdgeMd)
    /\ Written(fSmallMd)

\* C9: in single mode the archive never has more than one entry; when an
\* executable is selected the archive is exactly one entry, named by the
\* file's base name without any directory, holding that file, and
\* files_added is 1; when none is selected the archive is empty and
\* files_added is 0.  A build directory with app.exe and a.txt and binary
\* name app gives exactly the entry app.exe.
C9_SingleEntry ==
    single_only =>
        /\ Len(z) <= 1
        /\ Built =>
             IF exe_found # <<>>
             THEN /\ Len(z) = 1
                  /\ z[1].name = exe_found[1].name
                  /\ ~Contains(z[1].name, "/")
                  /\ z[1].data = exe_found[1].data
                  /\ Some(DirectFiles, LAMBDA p : p = exe_found[1])
                  /\ files_added = 1
             ELSE z = <<>> /\ files_added = 0
        /\ (Built /\ NameGiven /\ bin_name[1] = <<"a","p","p">>
              /\ buildFiles \in {<<fAppExe, fTxt>>, <<fTxt, fAppExe>>}) =>
             (Len(z) = 1 /\ z[1].name = <<"a","p","p",".","e","x","e">>)

C9_Witness ==
    /\ single_only
    /\ Built
    /\ assetFiles.exists
    /\ buildFiles = <<fTxt, fAppExe>>
    /\ bin_name = << <<"a","p","p">> >>
    /\ Len(z) = 1


(***************************************************************************)
(* The binary name (specification SpecName): every manifest of a few       *)
(* lines.                                                                  *)
(***************************************************************************)
lTight   == <<" "," ","n","a","m","e","=","\"","x","\"">>
lLonger  == <<"n","a","m","e","s","p","a","c","e"," ","="," ","\"","n","s","\"">>
lBare    == <<"n","a","m","e">>
lVersion == <<"v","e","r","s","i","o","n"," ","="," ","\"","1","\"">>
lNoValue == <<"n","a","m","e"," ","=">>

ManifestLines == { lName, lTight, lLonger, lPackage, lBare, lVersion, lNoValue }

\* the sequences of at most n elements of U
RECURSIVE TextsUpTo(_, _)
TextsUpTo(U, n) ==
    IF n = 0 THEN { <<>> }
    ELSE LET shorter == TextsUpTo(U, n - 1)
         IN shorter \cup { Append(q, e) : q \in { r \in shorter : Len(r) = n - 1 },
                                           e \in U }

InitName ==
    InitWith({NoDirs, OnlyDir(1)},
             Listings({fRun, fApp, fOthExe}, 1),
             {NoAssets},
             {NoManifest, BadManifest} \cup { Text(q) : q \in TextsUpTo(ManifestLines, MaxLines) },
             {OutAt("elsewhere")},
             {AbsentFile})

SpecName == InitName /\ [][Next]_vars

\* a line whose key is the word name: name, optional blanks, then =
KeyIsName(raw) ==
    LET line == Strip(raw, Whitespace)
        rest == LStrip(SubSeq(line, 5, Len(line)), Whitespace)
    IN StartsWith(line, <<"n","a","m","e">>) /\ rest # <<>> /\ Head(rest) = "="

ValueOf(raw) ==
    LET line == Strip(raw, Whitespace)
        i == CHOOSE k \in 1..Len(line) : line[k] = "=" /\ \A j \in 1..(k - 1) : line[j] # "="
    IN Strip(Strip(SubSeq(line, i + 1, Len(line)), Whitespace), {"\""})

ClaimedName(m) ==
    IF m.state = "text" /\ Some(m.lines, KeyIsName)
    THEN <<ValueOf(FirstOf(m.lines, KeyIsName))>>
    ELSE <<>>

\* C5 as stated: the binary name is the value of the first manifest line
\* whose key is name (a longer key such as namespace is no match), blanks and
\* quotes removed; it is unset when the manifest is absent, unreadable or
\* has no such line.
C5_Claimed == manifestRead => bin_name = ClaimedName(manifest)

(***************************************************************************)
(* Two runs in succession (specification SpecTwice).                       *)
(***************************************************************************)
InitTwice ==
    InitWith({NoDirs, OnlyDir(4), OnlyDir(6), OnlyFile(4),
              [i \in 1..6 |-> IF i \in {4, 6} THEN "dir" ELSE "absent"]},
             Listings({fRun, fApp, fBigMd}, MaxFiles),
             {NoAssets, Assets(<<fImg>>)},
             {NoManifest, AppManifest},
             {OutAt("elsewhere"), OutAt("inBase"), OutAt("inAssets"), OutAt("manifest"),
              OutAtCand(2), OutAtCand(4)},
             {AbsentFile, OldFile(FALSE), OldFile(TRUE)})

SpecTwice == InitTwice /\ [][NextTwice]_vars

\* the entries of the archive at the output path: names and contents
ArchiveEntries(d) ==
    IF d.exists /\ d.isZip
    THEN { [name |-> d.entries[i].name, data |-> d.entries[i].data] : i \in 1..Len(d.entries) }
    ELSE {}

SameAsPreviousRun ==
    /\ ret = prevRet
    /\ ArchiveEntries(outData) = ArchiveEntries(fs0[3])

\* C7 as stated: a second run with the same options and output path gives
\* the same exit code and an archive with the same entry names and contents
\* as the first, wherever the output path lies.
C7_Original == (run >= 2 /\ pc = "Done") => SameAsPreviousRun

\* C7 amended: a second run gives the same exit code and an archive with the
\* same entry names and contents as the first, for every output path that is
\* neither one of the six candidate paths nor the manifest (an output path
\* inside the build directory or the assets directory included).
C7_Amended ==
    (run >= 2 /\ pc = "Done" /\ out_loc.at \notin {"cand", "manifest"}) => SameAsPreviousRun

C7_Witness ==
    /\ run = 2
    /\ pc = "Done"
    /\ out_loc.at = "inBase"
    /\ ret = 0
    /\ prevRet = 0
    /\ Len(outData.entries) = 2
    /\ ArchiveEntries(outData) = ArchiveEntries(fs0[3])

====
